---------------------------- MODULE Spec2Model ----------------------------
(***************************************************************************)
(* GHepRecord (src/src/GHEP/GHepRecord.cxx): the STDHEP-like event record. *)
(* A record is a TClonesArray of GHepParticle entries addressed by their   *)
(* 0-based position, an owned Interaction summary pointer and three flags. *)
(* Mother / daughter links are positions into the same array.              *)
(***************************************************************************)
EXTENDS Integers, Sequences, FiniteSets, TLC

\* ------------------------------------------------------------------ bounds
MaxEntries == 5
MaxFacadeEntries == 2
MaxCopyEntries == 1
MaxAlloc == 2
MaxLookupEntries == 3
MaxShiftEntries == 2
MaxShift == 2
MaxTwinEntries == 4
MaxNodes == 2
MaxConfFiles == 1
MaxSwapEntries == 3
MaxDeclEntries == 3

\* ------------------------------------------------------- particle entries
kIStInitialState == "kIStInitialState"
kIstNucleonTarget == "kIstNucleonTarget"
kIStStableFinalState == "kIStStableFinalState"

GenStatus == {kIStInitialState, kIstNucleonTarget, kIStStableFinalState}
GenPdg == {2212}
PdgCodes == {11, 2212}
FacadeStatus == {kIStStableFinalState}
Momenta == {<<0, 0, 1, 1>>}
Vertices == {<<0, 0, 0, 0>>}
Payloads == {"nu_QEL"}
Shifts == {<<1, 2, 3, 4>>}

\* The two records of the model: the record operated on and a second one
\* that serves as source or destination of Copy.
RecIds == {1, 2}

\* a null pointer (GetParticle / GetInteraction return 0)
NULL == [null |-> TRUE, at |-> -1]
Ptr(x) == [null |-> FALSE, at |-> x]

\* GHepParticle(pdg, status, mom1, mom2, dau1, dau2, p, v); uid names the
\* entry itself (the content that travels with every GHepParticle::Copy).
GHepParticle(pdg, status, mom1, mom2, dau1, dau2, p, v, uid) ==
  [pdg |-> pdg, ist |-> status, mom1 |-> mom1, mom2 |-> mom2,
   dau1 |-> dau1, dau2 |-> dau2, p4 |-> p, v4 |-> v, uid |-> uid]

\* GHepParticle(const GHepParticle &) and GHepParticle::Copy: every field
CopyParticle(p) ==
  [pdg |-> p.pdg, ist |-> p.ist, mom1 |-> p.mom1, mom2 |-> p.mom2,
   dau1 |-> p.dau1, dau2 |-> p.dau2, p4 |-> p.p4, v4 |-> p.v4, uid |-> p.uid]

HasDaughters(p) == p.dau1 # -1

\* ------------------------------------------------ the array of particles
\* P is a function from positions 0..n-1 to entries
EmptyArray == [i \in {} |-> NULL]
GetEntries(P) == Cardinality(DOMAIN P)

\* new ((*this)[pos]) GHepParticle(...)
PlaceAtLastSlot(P, pos, p) ==
  IF pos = 0 THEN [i \in {0} |-> p] ELSE [P EXCEPT ![pos - 1] = p]
PlaceAt(P, pos, p) ==
  [i \in (DOMAIN P) \cup {pos} |-> IF i = pos THEN p ELSE P[i]]

GetParticleUpTo(P, position) ==
  IF position >= 0 /\ position <= GetEntries(P) THEN Ptr(position) ELSE NULL
GetParticle(P, position) ==
  IF position >= 0 /\ position < GetEntries(P) THEN Ptr(position) ELSE NULL

\* the test of the scan loops of FindParticle and ParticlePosition
MatchesPdgOnly(p, pdg, status) == p.pdg = pdg
Matches(p, pdg, status) == p.ist = status /\ p.pdg = pdg

\* for(i = start; i < GetEntries(); i++) of FindParticle: the entry found
RECURSIVE FindFrom(_, _, _, _)
FindFrom(P, pdg, status, i) ==
  IF i >= GetEntries(P) THEN NULL
  ELSE IF Matches(P[i], pdg, status) THEN Ptr(i)
       ELSE FindFrom(P, pdg, status, i + 1)

FindParticle(P, pdg, status, start) == FindFrom(P, pdg, status, start)

\* the same loop of ParticlePosition(pdg, status, start): the position
RECURSIVE PositionFrom(_, _, _, _)
PositionFrom(P, pdg, status, i) ==
  IF i >= GetEntries(P) THEN -1
  ELSE IF Matches(P[i], pdg, status) THEN i
       ELSE PositionFrom(P, pdg, status, i + 1)

ParticlePosition(P, pdg, status, start) == PositionFrom(P, pdg, status, start)

\* x0 + p->Vx(), y0 + p->Vy(), z0 + p->Vz(), t0 + p->Vt()
ShiftedBy(v, vec4) ==
  <<vec4[1] + v[1], vec4[2] + v[2], vec4[3] + v[3], vec4[4] + v[4]>>

\* SetVertex on every entry of the array
ShiftVertexButFirst(P, vec4) ==
  [i \in DOMAIN P |->
     IF i = 0 THEN P[i] ELSE [P[i] EXCEPT !.v4 = ShiftedBy(@, vec4)]]
ShiftVertex(P, vec4) ==
  [i \in DOMAIN P |-> [P[i] EXCEPT !.v4 = ShiftedBy(@, vec4)]]

\* ------------------------------------------------- daughter-list helpers
\* the entries that say p->FirstMother() == pos
DaughtersEitherMother(P, pos) ==
  {i \in DOMAIN P : P[i].mom1 = pos \/ P[i].mom2 = pos}
Daughters(P, pos) == {i \in DOMAIN P : P[i].mom1 = pos}

SetMin(S) == CHOOSE x \in S : \A y \in S : x <= y
SetMax(S) == CHOOSE x \in S : \A y \in S : x >= y

RECURSIVE SortAsc(_)
SortAsc(S) ==
  IF S = {} THEN <<>> ELSE <<SetMin(S)>> \o SortAsc(S \ {SetMin(S)})

Abs(x) == IF x < 0 THEN -x ELSE x

RECURSIVE CompactFrom(_, _, _, _)
CompactFrom(d, idx, prev, acc) ==
  IF idx > Len(d) THEN acc
  ELSE CompactFrom(d, idx + 1, d[idx], acc /\ (Abs(prev - d[idx]) <= 1))

HasCompactDaughterList(P, pos) ==
  LET daughters == SortAsc(Daughters(P, pos))
  IN IF Len(daughters) > 1
     THEN CompactFrom(daughters, 1, daughters[1], TRUE)
     ELSE TRUE

RECURSIVE FirstNonInitFrom(_, _)
FirstNonInitFrom(P, pos) ==
  IF pos >= GetEntries(P) THEN pos
  ELSE IF P[pos].ist # kIStInitialState /\ P[pos].ist # kIstNucleonTarget
       THEN pos
       ELSE FirstNonInitFrom(P, pos + 1)

FirstEntry(P) == 0
FirstNonInitStateEntry(P) == FirstNonInitFrom(P, 0)

\* SetFirstMother(m) on every entry of [d1, d2]; positions without an entry
\* are a null dereference, reported in fault
TellDaughters(P, d1, d2, m) ==
  [k \in DOMAIN P |->
     IF k >= d1 /\ k <= d2 THEN [P[k] EXCEPT !.mom1 = m] ELSE P[k]]

BadDeref(P, d1, d2) == \E k \in d1..d2 : k \notin DOMAIN P

\* returns [P, fault]: fault is set by the assert or a null dereference
SwapParticlesNoTmp(P, i, j) ==
  [P |-> [P EXCEPT ![i] = CopyParticle(P[j])], fault |-> FALSE]
SwapParticles(P, i, j) ==
  LET n == GetEntries(P)
  IN IF ~(i >= 0 /\ j >= 0 /\ i < n /\ j < n) THEN [P |-> P, fault |-> TRUE]
     ELSE IF i = j THEN [P |-> P, fault |-> FALSE]
     ELSE
       LET P1 == [P EXCEPT ![i] = CopyParticle(P[j]), ![j] = CopyParticle(P[i])]
           hi == HasDaughters(P1[i])
           P2 == IF hi THEN TellDaughters(P1, P1[i].dau1, P1[i].dau2, j) ELSE P1
           hj == HasDaughters(P2[j])
           P3 == IF hj THEN TellDaughters(P2, P2[j].dau1, P2[j].dau2, i) ELSE P2
       IN [P |-> P3,
           fault |-> (hi /\ BadDeref(P1, P1[i].dau1, P1[i].dau2))
                     \/ (hj /\ BadDeref(P2, P2[j].dau1, P2[j].dau2))]

Min(a, b) == IF a <= b THEN a ELSE b
MaxSameAsMin(a, b) == IF a <= b THEN a ELSE b
Max(a, b) == IF a >= b THEN a ELSE b

\* the inner loop of FinalizeDaughterLists over i2..n-1: <<dau1, dau2>>
RECURSIVE ScanForDaughters(_, _, _, _, _, _)
ScanForDaughters(P, i1, i2, n, dau1, dau2) ==
  IF i2 >= n THEN <<dau1, dau2>>
  ELSE IF P[i2].mom1 = i1
       THEN ScanForDaughters(P, i1, i2 + 1, n,
                             IF dau1 < 0 THEN i2 ELSE Min(dau1, i2),
                             IF dau2 < 0 THEN i2 ELSE Max(dau2, i2))
       ELSE ScanForDaughters(P, i1, i2 + 1, n, dau1, dau2)

SetDaughters(p, d) == [p EXCEPT !.dau1 = d[1], !.dau2 = d[2]]

FinalizeKeepProvisional(P) == P
FinalizeDaughterLists(P) ==
  [i1 \in DOMAIN P |->
     SetDaughters(P[i1], ScanForDaughters(P, i1, 0, GetEntries(P), -1, -1))]

\* the inner loop of CompactifyDaughterLists: S = [P, start, ndau, fault,
\* swaps], swaps being the calls SwapParticles(start, k) issued so far
RECURSIVE MoveDaughters(_, _, _, _)
MoveDaughters(S, i, k, n) ==
  IF k >= n THEN S
  ELSE IF S.P[k].mom1 = i
       THEN LET sw == SwapParticles(S.P, S.start, k)
            IN MoveDaughters([P |-> sw.P, start |-> S.start + 1,
                              ndau |-> S.ndau + 1,
                              fault |-> S.fault \/ sw.fault,
                              swaps |-> S.swaps \cup {<<S.start, k>>}],
                             i, k + 1, n)
       ELSE MoveDaughters(S, i, k + 1, n)

ScanFromCursor(start) == start

FirstScanPosition(start) == start + 1

ProvisionalLast(dau1, ndau) == dau1 + ndau

\* the end of one pass of the outer loop: the provisional daughter list of i
SetProvisional(M, i, dau1) ==
  [P |-> IF M.ndau > 0
         THEN [M.P EXCEPT ![i].dau1 = dau1,
                          ![i].dau2 = ProvisionalLast(dau1, M.ndau)]
         ELSE [M.P EXCEPT ![i].dau1 = -1, ![i].dau2 = -1],
   start |-> M.start, fault |-> M.fault, swaps |-> M.swaps]

\* the outer loop of CompactifyDaughterLists: S = [P, start, fault]
RECURSIVE CompactifyFrom(_, _, _)
CompactifyFrom(S, i, n) ==
  IF i >= n THEN S
  ELSE IF HasCompactDaughterList(S.P, i) THEN CompactifyFrom(S, i + 1, n)
  ELSE CompactifyFrom(
         SetProvisional(
           MoveDaughters([P |-> S.P, start |-> S.start, ndau |-> 0,
                          fault |-> S.fault, swaps |-> S.swaps],
                         i, FirstScanPosition(S.start), n),
           i, S.start),
         i + 1, n)

\* returns [P, fault]
CompactifyDaughterLists(P) ==
  LET n == GetEntries(P)
      start == FirstNonInitStateEntry(P)
      S == CompactifyFrom([P |-> P, start |-> start, fault |-> FALSE,
                           swaps |-> {}], 0, n)
  IN [P |-> FinalizeDaughterLists(S.P), fault |-> S.fault, swaps |-> S.swaps]

\* the three cheap cases of UpdateDaughterLists (each preceded by the
\* slips of it that the properties below are tried against)
ListWasEmptyZero(dau1) == dau1 = 0
ListWasEmpty(dau1) == dau1 = -1
JustBefore(pos, dau1) == pos = dau1 - 1
JustAfterAtLast(pos, dau2) == pos = dau2
JustAfterWrongSign(pos, dau2) == pos = dau2 - 1
JustAfter(pos, dau2) == pos = dau2 + 1

\* returns [P, path, fault, swaps]; path names the branch taken
UpdateDaughterLists(P) ==
  LET pos == GetEntries(P) - 1
      mom_pos == P[pos].mom1
      mom == GetParticle(P, mom_pos)
  IN IF mom_pos = -1
     THEN [P |-> P, path |-> "nomother", fault |-> FALSE, swaps |-> {}]
     ELSE IF mom.null
     THEN [P |-> P, path |-> "nomom", fault |-> FALSE, swaps |-> {}]
     ELSE
       LET dau1 == P[mom_pos].dau1
           dau2 == P[mom_pos].dau2
       IN IF ListWasEmpty(dau1)
          THEN [P |-> [P EXCEPT ![mom_pos].dau1 = pos, ![mom_pos].dau2 = pos],
                path |-> "first", fault |-> FALSE, swaps |-> {}]
          ELSE IF JustBefore(pos, dau1)
          THEN [P |-> [P EXCEPT ![mom_pos].dau1 = pos],
                path |-> "before", fault |-> FALSE, swaps |-> {}]
          ELSE IF JustAfter(pos, dau2)
          THEN [P |-> [P EXCEPT ![mom_pos].dau2 = pos],
                path |-> "after", fault |-> FALSE, swaps |-> {}]
          ELSE LET C == CompactifyDaughterLists(P)
               IN [P |-> C.P, path |-> "compactify", fault |-> C.fault,
                   swaps |-> C.swaps]


\* UpdateDaughterLists also reports whether the compactifier was invoked
CompactifyCalls(path) == IF path = "compactify" THEN 1 ELSE 0

\* ----------------------------------------------------- the event record
\* fInteraction is 0 (no summary) or the address of an Interaction object
Addresses == 1..MaxAlloc

InitGHepRecord(R) ==
  [R EXCEPT !.fInteraction = 0, !.fIsPauliBlocked = FALSE,
            !.fIsBelowThrNRF = FALSE, !.fGenericErrFlag = FALSE]

NewRecord ==
  InitGHepRecord([P |-> EmptyArray, fInteraction |-> 0,
                  fIsPauliBlocked |-> FALSE, fIsBelowThrNRF |-> FALSE,
                  fGenericErrFlag |-> FALSE])

\* the heap of Interaction objects
FreeCell == [live |-> FALSE, payload |-> "none"]
Delete(H, a) == IF a = 0 THEN H ELSE [H EXCEPT ![a] = FreeCell]
FreeAddresses(H) == {a \in Addresses : ~H[a].live}
New(H, a, payload) == [H EXCEPT ![a] = [live |-> TRUE, payload |-> payload]]
\* operator new hands out the lowest free address (one a freed object had
\* may be handed out again)
NewAddress(H) == SetMin(FreeAddresses(H))

\* returns [R, H]: deletes the summary, Clear("C") empties the array
CleanUpLeakSummary(R, H) == [R |-> [R EXCEPT !.P = EmptyArray], H |-> H]
CleanUpGHepRecord(R, H) ==
  [R |-> [R EXCEPT !.P = EmptyArray], H |-> Delete(H, R.fInteraction)]

\* returns [R, H]
ResetGHepRecord(R, H) ==
  LET C == CleanUpGHepRecord(R, H)
  IN [R |-> InitGHepRecord(C.R), H |-> C.H]

IsUnphysicalTwoFlags(R) == R.fIsPauliBlocked \/ R.fIsBelowThrNRF
IsUnphysical(R) ==
  R.fIsPauliBlocked \/ R.fIsBelowThrNRF \/ R.fGenericErrFlag

GetInteraction(R) == IF R.fInteraction = 0 THEN NULL ELSE Ptr(R.fInteraction)

\* the entry loop of Copy: placement-new of a copy of every entry of src
RECURSIVE CopyEntries(_, _, _)
CopyEntries(P, src, ientry) ==
  IF ientry >= GetEntries(src) THEN P
  ELSE CopyEntries(PlaceAt(P, ientry, CopyParticle(src[ientry])), src, ientry + 1)

CopyFlagsButLast(R, S) ==
  [R EXCEPT !.fIsPauliBlocked = S.fIsPauliBlocked,
            !.fIsBelowThrNRF = S.fIsBelowThrNRF]
CopyFlags(R, S) ==
  [R EXCEPT !.fIsPauliBlocked = S.fIsPauliBlocked,
            !.fIsBelowThrNRF = S.fIsBelowThrNRF,
            !.fGenericErrFlag = S.fGenericErrFlag]

\* ---------------------------------------------------------- Messenger
\* (src/src/Messenger/Messenger.cxx) the priority of every message stream
\* is that of its log4cpp category, NOTSET until SetPriorityLevel sets it
NOTSET == "NOTSET"
Streams == {"GHEP", "Ntp"}

\* <priority msgstream="...">text</priority>, a child of the root element
PriorityNode(msgstream, text) ==
  [name |-> "priority", msgstream |-> msgstream, text |-> text]
Nodes ==
  {PriorityNode("GHEP", "DEBUG"), PriorityNode(" GHEP", "WARN"),
   PriorityNode("Ntp", "verbose")}

\* what xmlParseFile makes of a file: no document, or a root element and
\* its children in document order
XmlDoc(root, nodes) == [parsed |-> TRUE, root |-> root, nodes |-> nodes]
NoDocument == [parsed |-> FALSE, root |-> "", nodes |-> <<>>]
ForeignDocument == XmlDoc("genie_config", <<PriorityNode(" GHEP", "WARN")>>)
Documents ==
  {XmlDoc("messenger_config", nodes) :
     nodes \in UNION {[1..n -> Nodes] : n \in 0..MaxNodes}}
  \cup {NoDocument, ForeignDocument}

\* the files GMSGCONF lists, as Split(gmsgconf, ":") returns them
ConfLists == UNION {[1..n -> Documents] : n \in 0..MaxConfFiles}

\* string_utils::TrimSpaces on the stream names of the model
TrimSpaces(str) == IF str = " GHEP" THEN "GHEP" ELSE str

\* p.find(name) != string::npos: no text of the model holds a priority
\* name inside a longer word
Find(p, name) == p = name

PriorityFromString(p) ==
  IF Find(p, "FATAL") THEN "FATAL"
  ELSE IF Find(p, "ALERT") THEN "ALERT"
  ELSE IF Find(p, "CRIT") THEN "CRIT"
  ELSE IF Find(p, "ERROR") THEN "ERROR"
  ELSE IF Find(p, "WARN") THEN "WARN"
  ELSE IF Find(p, "NOTICE") THEN "NOTICE"
  ELSE IF Find(p, "INFO") THEN "INFO"
  ELSE IF Find(p, "DEBUG") THEN "DEBUG"
  ELSE "INFO"

\* MSG.setPriority(priority) on the category of the stream
SetPriorityLevelIfUnset(levels, stream, priority) ==
  IF levels[stream] = NOTSET THEN [levels EXCEPT ![stream] = priority] ELSE levels
SetPriorityLevel(levels, stream, priority) ==
  [levels EXCEPT ![stream] = priority]

\* while (xml_msgp != NULL): the children from the k-th on
RECURSIVE SetPrioritiesFromNodes(_, _, _)
SetPrioritiesFromNodes(levels, nodes, k) ==
  IF k > Len(nodes) THEN levels
  ELSE IF nodes[k].name = "priority"
       THEN SetPrioritiesFromNodes(
              SetPriorityLevel(levels, TrimSpaces(nodes[k].msgstream),
                               PriorityFromString(nodes[k].text)),
              nodes, k + 1)
       ELSE SetPrioritiesFromNodes(levels, nodes, k + 1)

\* returns [levels, ok]
SetPrioritiesFromXmlFile(levels, doc) ==
  IF ~doc.parsed THEN [levels |-> levels, ok |-> FALSE]
  ELSE IF doc.root = "" THEN [levels |-> levels, ok |-> FALSE]
  ELSE IF doc.root # "messenger_config" THEN [levels |-> levels, ok |-> FALSE]
  ELSE [levels |-> SetPrioritiesFromNodes(levels, doc.nodes, 1), ok |-> TRUE]

\* the loop over conf_xmlv
RECURSIVE ConfigureFrom(_, _, _)
ConfigureFrom(levels, conf_xmlv, k) ==
  IF k > Len(conf_xmlv) THEN levels
  ELSE ConfigureFrom(SetPrioritiesFromXmlFile(levels, conf_xmlv[k]).levels,
                     conf_xmlv, k + 1)

\* Configure(): msg_config_file is $GENIE/config/messenger.xml
Configure(levels, msg_config_file, conf_xmlv) ==
  LET defaults == SetPrioritiesFromXmlFile(levels, msg_config_file).levels
  IN IF Len(conf_xmlv) > 0 THEN ConfigureFrom(defaults, conf_xmlv, 1)
     ELSE defaults

\* the Messenger before Instance() has configured it
NewMessenger(msg_config_file, conf_xmlv) ==
  [genie |-> msg_config_file, gmsgconf |-> conf_xmlv,
   levels |-> [stream \in Streams |-> NOTSET], configured |-> FALSE]

\* ----------------------------------------------------------------- state
VARIABLES
  rec,       \* rec[r]: the record r
  heap,      \* heap[a]: the Interaction object at address a
  op,        \* the operation that ran last, with its arguments
  ret,       \* what it returned
  pre,       \* the array of the record it ran on, as it was before
  mid,       \* the array as it was when the compactifier was invoked
  ncompact,  \* ncompact[r]: compactifier invocations since r was (re)initialised
  hist,      \* hist[r]: the first mothers r's entries were appended with
  fault,     \* an assert fired or a null pointer was dereferenced
  msg        \* the Messenger: the files of its environment and its levels

vars == <<rec, heap, op, ret, pre, mid, ncompact, hist, fault, msg>>

NoRet == [null |-> TRUE, at |-> -1, flag |-> FALSE]
RetPtr(x) == [null |-> x.null, at |-> x.at, flag |-> FALSE]
RetBool(b) == [null |-> TRUE, at |-> -1, flag |-> b]
RetInt(i) == [null |-> TRUE, at |-> i, flag |-> FALSE]

Op(name, r) ==
  [name |-> name, r |-> r, path |-> "", calls |-> 0, arg |-> -1, src |-> 0,
   on |-> FALSE, pdg |-> 0, ist |-> "", mom2 |-> -1,
   vec4 |-> <<0, 0, 0, 0>>, arg2 |-> -1, swaps |-> {}]

InitRecords ==
  /\ rec = [r \in RecIds |-> NewRecord]
  /\ heap = [a \in Addresses |-> FreeCell]
  /\ op = Op("Init", 1)
  /\ ret = NoRet
  /\ pre = EmptyArray
  /\ mid = EmptyArray
  /\ ncompact = [r \in RecIds |-> 0]
  /\ hist = [r \in RecIds |-> <<>>]
  /\ fault = FALSE

Init ==
  /\ InitRecords
  /\ msg = NewMessenger(NoDocument, <<>>)

\* AddParticle(pdg, status, mom1, mom2, dau1, dau2, p, v)
AddParticle(r, pdg, status, mom1, mom2, dau1, dau2, p, v) ==
  LET pos == GetEntries(rec[r].P)
      placed == PlaceAt(rec[r].P, pos,
                        GHepParticle(pdg, status, mom1, mom2, dau1, dau2, p, v, pos))
  IN \E U \in {UpdateDaughterLists(placed)} :
     /\ ~fault
     /\ rec' = [rec EXCEPT ![r].P = U.P]
     /\ op' = [Op("AddParticle", r) EXCEPT !.path = U.path,
                                           !.calls = CompactifyCalls(U.path),
                                           !.arg = mom1, !.swaps = U.swaps]
     /\ ret' = NoRet
     /\ pre' = rec[r].P
     /\ mid' = placed
     /\ ncompact' = [ncompact EXCEPT ![r] = @ + CompactifyCalls(U.path)]
     /\ hist' = [hist EXCEPT ![r] = Append(@, mom1)]
     /\ fault' = U.fault
     /\ UNCHANGED <<heap, msg>>

\* the same AddParticle on record 1 and on record 2, which differ in the
\* second mother only: record 1 gets mom2a, record 2 gets mom2b
AddParticleBoth(pdg, status, mom1, mom2a, mom2b, p, v) ==
  LET pos1 == GetEntries(rec[1].P)
      pos2 == GetEntries(rec[2].P)
      placed1 == PlaceAt(rec[1].P, pos1,
                         GHepParticle(pdg, status, mom1, mom2a, -1, -1, p, v, pos1))
      placed2 == PlaceAt(rec[2].P, pos2,
                         GHepParticle(pdg, status, mom1, mom2b, -1, -1, p, v, pos2))
  IN \E U1 \in {UpdateDaughterLists(placed1)}, U2 \in {UpdateDaughterLists(placed2)} :
     /\ ~fault
     /\ rec' = [rec EXCEPT ![1].P = U1.P, ![2].P = U2.P]
     /\ op' = [Op("AddParticleBoth", 1) EXCEPT !.path = U1.path,
                                               !.calls = CompactifyCalls(U1.path),
                                               !.arg = mom1, !.src = 2,
                                               !.mom2 = mom2b]
     /\ ret' = NoRet
     /\ pre' = rec[1].P
     /\ mid' = placed1
     /\ ncompact' = [ncompact EXCEPT ![1] = @ + CompactifyCalls(U1.path),
                                     ![2] = @ + CompactifyCalls(U2.path)]
     /\ hist' = [hist EXCEPT ![1] = Append(@, mom1), ![2] = Append(@, mom1)]
     /\ fault' = (U1.fault \/ U2.fault)
     /\ UNCHANGED <<heap, msg>>

\* the operations that leave the genealogy bookkeeping alone
Quiet == UNCHANGED <<mid, ncompact, hist, fault, msg>>

\* AttachInteraction(new Interaction(...)): the caller's new object
AttachInteraction(r, payload) ==
  /\ ~fault
  /\ FreeAddresses(heap) # {}
  /\ heap' = New(heap, NewAddress(heap), payload)
  /\ rec' = [rec EXCEPT ![r].fInteraction = NewAddress(heap)]
  /\ op' = Op("AttachInteraction", r)
  /\ ret' = NoRet
  /\ pre' = rec[r].P
  /\ Quiet

CallGetInteraction(r) ==
  /\ ~fault
  /\ ret' = RetPtr(GetInteraction(rec[r]))
  /\ op' = Op("GetInteraction", r)
  /\ pre' = rec[r].P
  /\ UNCHANGED <<rec, heap>>
  /\ Quiet

CallGetParticle(r, position) ==
  /\ ~fault
  /\ ret' = RetPtr(GetParticle(rec[r].P, position))
  /\ op' = [Op("GetParticle", r) EXCEPT !.arg = position]
  /\ pre' = rec[r].P
  /\ UNCHANGED <<rec, heap>>
  /\ Quiet

SwitchIsPauliBlocked(r, on_off) ==
  /\ ~fault
  /\ rec' = [rec EXCEPT ![r].fIsPauliBlocked = on_off]
  /\ op' = [Op("SwitchIsPauliBlocked", r) EXCEPT !.on = on_off]
  /\ ret' = NoRet
  /\ pre' = rec[r].P
  /\ UNCHANGED heap
  /\ Quiet

SwitchIsBelowThrNRF(r, on_off) ==
  /\ ~fault
  /\ rec' = [rec EXCEPT ![r].fIsBelowThrNRF = on_off]
  /\ op' = [Op("SwitchIsBelowThrNRF", r) EXCEPT !.on = on_off]
  /\ ret' = NoRet
  /\ pre' = rec[r].P
  /\ UNCHANGED heap
  /\ Quiet

SwitchGenericErrFlag(r, on_off) ==
  /\ ~fault
  /\ rec' = [rec EXCEPT ![r].fGenericErrFlag = on_off]
  /\ op' = [Op("SwitchGenericErrFlag", r) EXCEPT !.on = on_off]
  /\ ret' = NoRet
  /\ pre' = rec[r].P
  /\ UNCHANGED heap
  /\ Quiet

CallIsUnphysical(r) ==
  /\ ~fault
  /\ ret' = RetBool(IsUnphysical(rec[r]))
  /\ op' = Op("IsUnphysical", r)
  /\ pre' = rec[r].P
  /\ UNCHANGED <<rec, heap>>
  /\ Quiet

CallFindParticle(r, pdg, status, start) ==
  /\ ~fault
  /\ ret' = RetPtr(FindParticle(rec[r].P, pdg, status, start))
  /\ op' = [Op("FindParticle", r) EXCEPT !.arg = start, !.pdg = pdg,
                                         !.ist = status]
  /\ pre' = rec[r].P
  /\ UNCHANGED <<rec, heap>>
  /\ Quiet

CallParticlePosition(r, pdg, status, start) ==
  /\ ~fault
  /\ ret' = RetInt(ParticlePosition(rec[r].P, pdg, status, start))
  /\ op' = [Op("ParticlePosition", r) EXCEPT !.arg = start, !.pdg = pdg,
                                             !.ist = status]
  /\ pre' = rec[r].P
  /\ UNCHANGED <<rec, heap>>
  /\ Quiet

\* ShiftVertex(vec4); the record is shifted at most MaxShift times
CallShiftVertex(r, vec4) ==
  /\ ~fault
  /\ \A i \in DOMAIN rec[r].P : rec[r].P[i].v4[1] < MaxShift * vec4[1]
  /\ rec' = [rec EXCEPT ![r].P = ShiftVertex(@, vec4)]
  /\ op' = [Op("ShiftVertex", r) EXCEPT !.vec4 = vec4]
  /\ ret' = NoRet
  /\ pre' = rec[r].P
  /\ UNCHANGED heap
  /\ Quiet

\* ResetGHepRecord()
Reset(r) ==
  /\ ~fault
  /\ \E Z \in {ResetGHepRecord(rec[r], heap)} :
       /\ rec' = [rec EXCEPT ![r] = Z.R]
       /\ heap' = Z.H
  /\ op' = Op("ResetGHepRecord", r)
  /\ ret' = NoRet
  /\ pre' = rec[r].P
  /\ mid' = EmptyArray
  /\ ncompact' = [ncompact EXCEPT ![r] = 0]
  /\ hist' = [hist EXCEPT ![r] = <<>>]
  /\ UNCHANGED <<fault, msg>>

\* Copy(record): this = dst, record = src, two different records.
\* new Interaction(*record.fInteraction) dereferences a null pointer when
\* src has no summary: the call then either dies there (outcome "dies") or
\* goes on with an object built from whatever the read found.
Copy(dst, src, outcome) ==
  /\ ~fault
  /\ dst # src
  /\ \E Z \in {ResetGHepRecord(rec[dst], heap)} :
       LET copied == [Z.R EXCEPT !.P = CopyEntries(Z.R.P, rec[src].P, 0)]
           from == rec[src].fInteraction
           a == NewAddress(Z.H)
       IN /\ FreeAddresses(Z.H) # {}
          /\ IF from # 0
             THEN /\ outcome = "copied"
                  /\ heap' = New(Z.H, a, Z.H[from].payload)
                  /\ rec' = [rec EXCEPT ![dst] =
                               CopyFlags([copied EXCEPT !.fInteraction = a], rec[src])]
                  /\ fault' = FALSE
             ELSE IF outcome = "dies"
             THEN /\ heap' = Z.H
                  /\ rec' = [rec EXCEPT ![dst] = copied]
                  /\ fault' = TRUE
             ELSE /\ outcome \in Payloads
                  /\ heap' = New(Z.H, a, outcome)
                  /\ rec' = [rec EXCEPT ![dst] =
                               CopyFlags([copied EXCEPT !.fInteraction = a], rec[src])]
                  /\ fault' = FALSE
  /\ op' = [Op("Copy", dst) EXCEPT !.src = src]
  /\ ret' = NoRet
  /\ pre' = rec[dst].P
  /\ mid' = EmptyArray
  /\ ncompact' = [ncompact EXCEPT ![dst] = 0]
  /\ hist' = [hist EXCEPT ![dst] = <<>>]
  /\ UNCHANGED msg

\* SwapParticles(i, j)
CallSwapParticles(r, i, j) ==
  /\ ~fault
  /\ \E W \in {SwapParticles(rec[r].P, i, j)} :
       /\ rec' = [rec EXCEPT ![r].P = W.P]
       /\ fault' = W.fault
  /\ op' = [Op("SwapParticles", r) EXCEPT !.arg = i, !.arg2 = j]
  /\ ret' = NoRet
  /\ pre' = rec[r].P
  /\ UNCHANGED <<heap, mid, ncompact, hist, msg>>

\* Messenger::Instance() configures the new Messenger, once
CallConfigure ==
  /\ ~msg.configured
  /\ msg' = [msg EXCEPT !.levels = Configure(@, msg.genie, msg.gmsgconf),
                        !.configured = TRUE]
  /\ op' = Op("Configure", 1)
  /\ ret' = NoRet
  /\ UNCHANGED <<rec, heap, pre, mid, ncompact, hist, fault>>

\* ------------------------------------------------- the genealogy machine
\* appends to record 1: no daughters yet, the mother is absent or an entry
\* that already exists
NextGen ==
  \E pdg \in GenPdg, status \in GenStatus, p \in Momenta, v \in Vertices :
    \E mom1 \in -1..(GetEntries(rec[1].P) - 1) :
      /\ GetEntries(rec[1].P) < MaxEntries
      /\ AddParticle(1, pdg, status, mom1, -1, -1, -1, p, v)

Spec == Init /\ [][NextGen]_vars

\* the same appends, as the machine the compaction claims (range = hull,
\* leading block, swap precondition) are stated on
NextCompact == NextGen

CompactSpec == Init /\ [][NextCompact]_vars

\* --------------------------------------------------- the facade machine
\* every operation of the facade on record 1
AppendWellFormed(r, maxEntries, pdgs, statuses) ==
  \E pdg \in pdgs, status \in statuses, p \in Momenta, v \in Vertices :
    \E mom1 \in -1..(GetEntries(rec[r].P) - 1) :
      /\ GetEntries(rec[r].P) < maxEntries
      /\ AddParticle(r, pdg, status, mom1, -1, -1, -1, p, v)

NextFacade ==
  \/ AppendWellFormed(1, MaxFacadeEntries, PdgCodes, FacadeStatus)
  \/ \E payload \in Payloads : AttachInteraction(1, payload)
  \/ CallGetInteraction(1)
  \/ \E position \in -1..(MaxFacadeEntries + 1) : CallGetParticle(1, position)
  \/ \E on_off \in BOOLEAN : SwitchIsPauliBlocked(1, on_off)
  \/ \E on_off \in BOOLEAN : SwitchIsBelowThrNRF(1, on_off)
  \/ \E on_off \in BOOLEAN : SwitchGenericErrFlag(1, on_off)
  \/ CallIsUnphysical(1)
  \/ Reset(1)

FacadeSpec == Init /\ [][NextFacade]_vars

\* ----------------------------------------------------- the copy machine
\* record 1 is filled, flagged, given a summary and reset; record 2 is
\* written by Copy alone, so it holds what record 1 held at some earlier
\* time; each is copied into the other
NextCopy ==
  \/ AppendWellFormed(1, MaxCopyEntries, PdgCodes, FacadeStatus)
  \/ \E payload \in Payloads : AttachInteraction(1, payload)
  \/ \E on_off \in BOOLEAN : SwitchIsPauliBlocked(1, on_off)
  \/ \E on_off \in BOOLEAN : SwitchIsBelowThrNRF(1, on_off)
  \/ \E on_off \in BOOLEAN : SwitchGenericErrFlag(1, on_off)
  \/ Reset(1)
  \/ \E dst \in RecIds, src \in RecIds, outcome \in Payloads \cup {"copied", "dies"} :
       Copy(dst, src, outcome)

CopySpec == Init /\ [][NextCopy]_vars

\* --------------------------------------------------- the lookup machine
\* record 1 is filled with entries of two type codes and two roles and
\* searched from every start position from 0 to past the end
LookupStatus == {kIStInitialState, kIStStableFinalState}

\* appends of entries without mother
AppendPrimary(r, maxEntries, pdgs, statuses) ==
  \E pdg \in pdgs, status \in statuses, p \in Momenta, v \in Vertices :
    /\ GetEntries(rec[r].P) < maxEntries
    /\ AddParticle(r, pdg, status, -1, -1, -1, -1, p, v)

NextLookup ==
  \/ AppendPrimary(1, MaxLookupEntries, PdgCodes, LookupStatus)
  \/ \E pdg \in PdgCodes, status \in LookupStatus :
       \E start \in 0..(MaxLookupEntries + 1) :
         CallFindParticle(1, pdg, status, start)
  \/ \E pdg \in PdgCodes, status \in LookupStatus :
       \E start \in 0..(MaxLookupEntries + 1) :
         CallParticlePosition(1, pdg, status, start)

LookupSpec == Init /\ [][NextLookup]_vars

\* ---------------------------------------------------- the shift machine
\* record 1 is filled, given a summary and a flag, and shifted
NextShift ==
  \/ AppendWellFormed(1, MaxShiftEntries, PdgCodes, FacadeStatus)
  \/ \E payload \in Payloads : AttachInteraction(1, payload)
  \/ \E on_off \in BOOLEAN : SwitchGenericErrFlag(1, on_off)
  \/ \E vec4 \in Shifts : CallShiftVertex(1, vec4)

ShiftSpec == Init /\ [][NextShift]_vars

\* ----------------------------------------------------- the twin machine
\* records 1 and 2 are built by the same appends; record 1 never names a
\* second mother, record 2 names none or entry 0
TwinStatus == {kIStInitialState, kIStStableFinalState}
TwinMothers == {-1, 0}

NextTwin ==
  \E pdg \in GenPdg, status \in TwinStatus, p \in Momenta, v \in Vertices :
    \E mom1 \in -1..(GetEntries(rec[1].P) - 1), mom2 \in TwinMothers :
      /\ GetEntries(rec[1].P) < MaxTwinEntries
      /\ AddParticleBoth(pdg, status, mom1, -1, mom2, p, v)

TwinSpec == Init /\ [][NextTwin]_vars

\* ------------------------------------------------ the Messenger machine
\* the default file and the files of GMSGCONF are any documents; Instance()
\* runs Configure
MessengerInit ==
  /\ InitRecords
  /\ msg \in {NewMessenger(msg_config_file, conf_xmlv) :
                msg_config_file \in Documents, conf_xmlv \in ConfLists}

NextMessenger == CallConfigure

MessengerSpec == MessengerInit /\ [][NextMessenger]_vars

\* ----------------------------------------------------- the swap machine
\* record 1 is filled by appends; then two of its slots are swapped
NextSwap ==
  \/ /\ op.name # "SwapParticles"
     /\ AppendWellFormed(1, MaxSwapEntries, GenPdg, GenStatus)
  \/ /\ op.name # "SwapParticles"
     /\ \E i \in DOMAIN rec[1].P, j \in DOMAIN rec[1].P :
          CallSwapParticles(1, i, j)

SwapSpec == Init /\ [][NextSwap]_vars

\* -------------------------------------------------- the declared machine
\* appends to record 1 that may declare the entry after the next as the
\* daughter of the new entry, and may name a mother that is not there yet
DeclaredDaughters(pos) == {<<-1, -1>>, <<pos + 2, pos + 2>>}

NextDecl ==
  \E pdg \in GenPdg, status \in TwinStatus, p \in Momenta, v \in Vertices :
    \E mom1 \in (-1..(GetEntries(rec[1].P) - 1)) \cup {GetEntries(rec[1].P) + 1},
       d \in DeclaredDaughters(GetEntries(rec[1].P)) :
      /\ GetEntries(rec[1].P) < MaxDeclEntries
      /\ AddParticle(1, pdg, status, mom1, -1, d[1], d[2], p, v)

DeclSpec == Init /\ [][NextDecl]_vars

\* ================================================================ claims
\* the array of the record the last operation ran on
Now == rec[op.r].P
Appended == op.name = "AddParticle"
Compactified == op.name = "AddParticle" /\ op.path = "compactify"

\* the position that holds the entry uid, or -1
PositionOf(P, uid) ==
  IF \E k \in DOMAIN P : P[k].uid = uid
  THEN CHOOSE k \in DOMAIN P : P[k].uid = uid
  ELSE -1

DaughtersExactlyInRange(P) ==
  \A i \in DOMAIN P :
    P[i].dau1 # -1 => Daughters(P, i) = P[i].dau1..P[i].dau2

AllCompact(P) == \A m \in DOMAIN P : HasCompactDaughterList(P, m)

\* C1: when append_particle returns, for every entry with a non-empty
\* daughter range the entries whose first mother it is are exactly the
\* entries of the inclusive range [daughter_first, daughter_last].
C1_DaughtersExactlyInRange ==
  Appended => DaughtersExactlyInRange(Now)

\* C2: whenever full compaction returns, the compactness check holds for
\* every position; appending the mothers -1, 0, -1, 0 runs full compaction
\* and leaves the first entry with a 2-slot daughter range that does not
\* hold the unrelated third entry.
C2_CompactAfterCompactify ==
  /\ Compactified => AllCompact(Now)
  /\ (Appended /\ hist[op.r] = <<-1, 0, -1, 0>>) =>
       LET e0 == PositionOf(Now, 0)
           e2 == PositionOf(Now, 2)
       IN /\ op.calls = 1
          /\ Now[e0].dau1 # -1
          /\ Now[e0].dau2 - Now[e0].dau1 + 1 = 2
          /\ ~(e2 >= Now[e0].dau1 /\ e2 <= Now[e0].dau2)

\* after holds the entries of before, each once, and every entry's first
\* mother is the position of the entry that was its mother in before
ParentConsistent(before, after) ==
  /\ DOMAIN after = DOMAIN before
  /\ \A k \in DOMAIN before : \E q \in DOMAIN after : after[q].uid = before[k].uid
  /\ \A q \in DOMAIN after :
       LET k == PositionOf(before, after[q].uid)
           m == before[k].mom1
       IN IF m = -1 THEN after[q].mom1 = -1
          ELSE /\ after[q].mom1 \in DOMAIN after
               /\ after[after[q].mom1].uid = before[m].uid

\* C3: full compaction is a parent-consistent permutation: after it every
\* entry's first mother is the position that now holds the entry that was
\* its mother before, and an entry without mother still has none.
C3_ParentConsistentPermutation ==
  Compactified => ParentConsistent(mid, Now)

\* C4: full compaction is idempotent: run again right after a full
\* compaction it leaves every slot, every first mother and every daughter
\* range as they are.
C4_CompactifyIdempotent ==
  Compactified => CompactifyDaughterLists(Now).P = Now

\* the appends h gave every mother its children one right after the other
ConsecutiveChildren(h) ==
  \A m \in 0..(Len(h) - 1) :
    LET K == {k \in 1..Len(h) : h[k] = m}
    IN K = {} \/ K = SetMin(K)..SetMax(K)

ChildrenRange(h, m) ==
  LET K == {k \in 1..Len(h) : h[k] = m}
  IN IF K = {} THEN <<-1, -1>> ELSE <<SetMin(K) - 1, SetMax(K) - 1>>

\* C5: an append at pos whose mother's daughter range is [a, pos-1] extends
\* the range to [a, pos] without invoking full compaction; when every
\* mother's children are appended consecutively full compaction never runs
\* and every mother's range is the run of its children.
C5_AppendRightAfterExtends ==
  /\ ( /\ Appended
       /\ op.arg \in DOMAIN pre
       /\ pre[op.arg].dau1 # -1
       /\ pre[op.arg].dau2 = GetEntries(pre) - 1 ) =>
       /\ op.calls = 0
       /\ Now[op.arg].dau1 = pre[op.arg].dau1
       /\ Now[op.arg].dau2 = GetEntries(pre)
  /\ \A r \in RecIds :
       (GetEntries(rec[r].P) = Len(hist[r]) /\ ConsecutiveChildren(hist[r])) =>
         /\ ncompact[r] = 0
         /\ \A m \in DOMAIN rec[r].P :
              <<rec[r].P[m].dau1, rec[r].P[m].dau2>> = ChildrenRange(hist[r], m)

C5_Witness ==
  /\ Appended /\ op.path = "after" /\ op.r = 1
  /\ hist[1] = <<-1, 0, 0>>
  /\ ncompact[1] = 0
  /\ Now[0].dau1 = 1 /\ Now[0].dau2 = 2

\* C6: an append at pos whose mother exists and has no daughters sets the
\* mother's daughter range to [pos, pos] without invoking full compaction.
C6_FirstDaughterSetsRange ==
  ( /\ Appended
    /\ op.arg \in DOMAIN pre
    /\ pre[op.arg].dau1 = -1
    /\ pre[op.arg].dau2 = -1 ) =>
    /\ op.calls = 0
    /\ Now[op.arg].dau1 = GetEntries(pre)
    /\ Now[op.arg].dau2 = GetEntries(pre)

C6_Witness ==
  /\ Appended /\ op.path = "first"
  /\ op.arg = 1 /\ pre[1].dau1 = -1
  /\ Now[1].dau1 = 3 /\ Now[1].dau2 = 3

\* C7: an append invokes full compaction at most once, and only on a record
\* in which the compactness check fails for at least one position.
C7_CompactifyOnlyWhenBroken ==
  Appended =>
    /\ op.calls <= 1
    /\ ncompact[op.r] <= Len(hist[op.r])
    /\ op.calls = 1 => \E m \in DOMAIN mid : ~HasCompactDaughterList(mid, m)

C7_Witness ==
  /\ Compactified /\ op.calls = 1
  /\ ~HasCompactDaughterList(mid, op.arg)


SameEntry(p, q) ==
  /\ p.pdg = q.pdg /\ p.ist = q.ist
  /\ p.mom1 = q.mom1 /\ p.mom2 = q.mom2
  /\ p.dau1 = q.dau1 /\ p.dau2 = q.dau2
  /\ p.p4 = q.p4 /\ p.v4 = q.v4

SameFlags(R, S) ==
  /\ R.fIsPauliBlocked = S.fIsPauliBlocked
  /\ R.fIsBelowThrNRF = S.fIsBelowThrNRF
  /\ R.fGenericErrFlag = S.fGenericErrFlag

\* C8: after dst.copy_from(src), src having a summary, dst has as many
\* entries as src, equal entry by entry in type code, role, mother and
\* daughter indices, momentum and position; the flags are equal; the
\* summary of dst is a live copy of src's at another address.
C8_CopyRoundTrip ==
  (op.name = "Copy" /\ rec[op.src].fInteraction # 0) =>
    LET D == rec[op.r]
        S == rec[op.src]
    IN /\ ~fault
       /\ GetEntries(D.P) = GetEntries(S.P)
       /\ \A i \in DOMAIN S.P : i \in DOMAIN D.P /\ SameEntry(D.P[i], S.P[i])
       /\ SameFlags(D, S)
       /\ D.fInteraction # 0
       /\ D.fInteraction # S.fInteraction
       /\ heap[D.fInteraction].live /\ heap[S.fInteraction].live
       /\ heap[D.fInteraction].payload = heap[S.fInteraction].payload

\* dst held another entry before; src has a summary, an entry and a flag
C8_Witness ==
  /\ op.name = "Copy" /\ rec[op.src].fInteraction # 0
  /\ GetEntries(rec[op.src].P) = 1 /\ GetEntries(pre) = 1
  /\ pre[0].pdg # rec[op.src].P[0].pdg
  /\ rec[op.r].P[0].pdg = rec[op.src].P[0].pdg
  /\ rec[op.src].fGenericErrFlag /\ ~rec[op.src].fIsPauliBlocked

FlagsOr(R) == R.fIsPauliBlocked \/ R.fIsBelowThrNRF \/ R.fGenericErrFlag

UnphysicalIsOr ==
  /\ \A r \in RecIds : IsUnphysical(rec[r]) = FlagsOr(rec[r])
  /\ op.name = "IsUnphysical" => ret.flag = FlagsOr(rec[op.r])

SettersFrame ==
  /\ op'.name = "SwitchIsPauliBlocked" =>
       rec' = [rec EXCEPT ![op'.r].fIsPauliBlocked = op'.on]
  /\ op'.name = "SwitchIsBelowThrNRF" =>
       rec' = [rec EXCEPT ![op'.r].fIsBelowThrNRF = op'.on]
  /\ op'.name = "SwitchGenericErrFlag" =>
       rec' = [rec EXCEPT ![op'.r].fGenericErrFlag = op'.on]

\* C9: in every state is_unphysical() is the OR of the three flags, and each
\* setter changes its own flag only: the other two flags, the entries and
\* the summary stay as they were.
C9_FlagsIndependent == [](UnphysicalIsOr) /\ [][SettersFrame]_vars

C9_Witness ==
  /\ op.name = "SwitchGenericErrFlag" /\ op.on
  /\ rec[op.r].fGenericErrFlag
  /\ ~rec[op.r].fIsPauliBlocked /\ ~rec[op.r].fIsBelowThrNRF
  /\ IsUnphysical(rec[op.r])
  /\ GetEntries(rec[op.r].P) >= 1

MissingLookups ==
  /\ ( /\ op'.name = "GetParticle"
       /\ (op'.arg < 0 \/ op'.arg >= GetEntries(rec[op'.r].P)) ) =>
       (ret'.null /\ rec' = rec /\ heap' = heap /\ ~fault')
  /\ (op'.name = "GetInteraction" /\ rec[op'.r].fInteraction = 0) =>
       (ret'.null /\ rec' = rec /\ heap' = heap /\ ~fault')

\* C10: get_particle with a position below 0 or not below the count, and
\* get_summary without a summary, return Missing, are not fatal and leave
\* entries, summary reference and flags as they were.
C10_MissingLookupsHarmless == [][MissingLookups]_vars

C10_Witness ==
  /\ op.name = "GetParticle"
  /\ GetEntries(rec[op.r].P) >= 1
  /\ op.arg = GetEntries(rec[op.r].P)
  /\ ret.null /\ ~fault
  /\ rec[op.r].fInteraction # 0

\* the smallest position from start on whose entry has the type code and
\* the role, or -1
FirstMatch(P, pdg, status, start) ==
  LET M == {i \in DOMAIN P : i >= start /\ P[i].pdg = pdg /\ P[i].ist = status}
  IN IF M = {} THEN -1 ELSE SetMin(M)

\* C11: for start >= 0, position_of(type_code, role_tag, start) returns the
\* smallest position i >= start whose entry has that type code and that
\* role, and -1 when there is none (also when start >= count);
\* find_particle returns the entry at exactly that position, and Missing
\* exactly when position_of returns -1.
C11_FindFirstFromStart ==
  /\ op.name = "ParticlePosition" =>
       ret.at = FirstMatch(Now, op.pdg, op.ist, op.arg)
  /\ op.name = "FindParticle" =>
       /\ ret.null = (FirstMatch(Now, op.pdg, op.ist, op.arg) = -1)
       /\ ret.at = FirstMatch(Now, op.pdg, op.ist, op.arg)
       /\ ret.null = (ParticlePosition(Now, op.pdg, op.ist, op.arg) = -1)
       /\ ret.at = ParticlePosition(Now, op.pdg, op.ist, op.arg)

\* the search starts past an entry that matches and skips one that has the
\* type code but not the role
C11_Witness ==
  /\ op.name = "FindParticle" /\ op.arg = 1
  /\ GetEntries(Now) = 3
  /\ Matches(Now[0], op.pdg, op.ist)
  /\ Now[1].pdg = op.pdg /\ Now[1].ist # op.ist
  /\ Matches(Now[2], op.pdg, op.ist)
  /\ ~ret.null /\ ret.at = 2

ShiftFrame ==
  op'.name = "ShiftVertex" =>
    LET P == rec[op'.r].P
        Q == rec'[op'.r].P
        d == op'.vec4
    IN /\ DOMAIN Q = DOMAIN P
       /\ \A i \in DOMAIN P :
            /\ \A c \in 1..4 : Q[i].v4[c] = P[i].v4[c] + d[c]
            /\ Q[i].uid = P[i].uid
            /\ Q[i].pdg = P[i].pdg /\ Q[i].ist = P[i].ist
            /\ Q[i].mom1 = P[i].mom1 /\ Q[i].mom2 = P[i].mom2
            /\ Q[i].dau1 = P[i].dau1 /\ Q[i].dau2 = P[i].dau2
            /\ Q[i].p4 = P[i].p4
       /\ rec'[op'.r].fInteraction = rec[op'.r].fInteraction
       /\ SameFlags(rec'[op'.r], rec[op'.r])
       /\ \A r \in RecIds \ {op'.r} : rec'[r] = rec[r]
       /\ heap' = heap
       /\ ~fault'

\* C12: shift_vertex(dx,dy,dz,dt) adds the offset to the 4-position of
\* every entry and changes nothing else: entry count, order, type codes,
\* roles, mother and daughter indices, momenta, the summary reference and
\* the three flags stay as they were.
C12_ShiftVertexFrame == [][ShiftFrame]_vars

\* two entries, mother and daughter, appended at different times, so their
\* positions differ; a summary and a flag are set; the first entry, once at
\* (0,0,0,0), has been shifted twice
C12_Witness ==
  /\ op.name = "ShiftVertex" /\ op.vec4 = <<1, 2, 3, 4>>
  /\ GetEntries(Now) = 2
  /\ Now[1].mom1 = 0 /\ Now[0].dau1 = 1
  /\ Now[0].v4 = <<2, 4, 6, 8>> /\ Now[1].v4 = <<1, 2, 3, 4>>
  /\ Now[0].p4 = <<0, 0, 1, 1>>
  /\ rec[op.r].fInteraction # 0 /\ rec[op.r].fGenericErrFlag

\* no entries, no summary, the three flags false
Blank(R) ==
  /\ GetEntries(R.P) = 0
  /\ R.fInteraction = 0
  /\ ~R.fIsPauliBlocked /\ ~R.fIsBelowThrNRF /\ ~R.fGenericErrFlag
  /\ ~IsUnphysical(R)

ResetClears ==
  op'.name = "ResetGHepRecord" =>
    /\ Blank(rec'[op'.r])
    /\ rec[op'.r].fInteraction # 0 => ~heap'[rec[op'.r].fInteraction].live
    /\ \A a \in Addresses : a # rec[op'.r].fInteraction => heap'[a] = heap[a]
    /\ ~fault'

\* C13: reset, in any reachable state, leaves the record with zero entries,
\* no summary (the one it had is released) and the three flags false, so
\* is_unphysical() is false; a freshly created record is in that state too.
C13_ResetClears == (\A r \in RecIds : Blank(rec[r])) /\ [][ResetClears]_vars

\* reset has just emptied a record of two entries
C13_Witness ==
  /\ op.name = "ResetGHepRecord"
  /\ GetEntries(pre) = 2 /\ pre[1].mom1 = 0
  /\ Blank(rec[op.r])
  /\ \A a \in Addresses : ~heap[a].live

\* records 1 and 2 took the same path on every append so far and have the
\* same layout, first mothers and daughter ranges
TwinsAgree ==
  /\ ncompact[1] = ncompact[2]
  /\ hist[1] = hist[2]
  /\ DOMAIN rec[1].P = DOMAIN rec[2].P
  /\ \A i \in DOMAIN rec[1].P :
       LET a == rec[1].P[i]
           b == rec[2].P[i]
       IN /\ a.uid = b.uid
          /\ a.pdg = b.pdg /\ a.ist = b.ist
          /\ a.mom1 = b.mom1
          /\ a.dau1 = b.dau1 /\ a.dau2 = b.dau2
          /\ a.p4 = b.p4 /\ a.v4 = b.v4

\* the second mother of the entry uid of P
SecondMotherOf(P, uid) == P[PositionOf(P, uid)].mom2

\* every entry keeps the second mother it was appended with, wherever the
\* append moves it
SecondMotherTravels ==
  op'.name = "AddParticleBoth" =>
    \A r \in RecIds :
      LET n == GetEntries(rec[r].P)
      IN /\ \A u \in 0..(n - 1) :
              /\ PositionOf(rec'[r].P, u) # -1
              /\ SecondMotherOf(rec'[r].P, u) = SecondMotherOf(rec[r].P, u)
         /\ PositionOf(rec'[r].P, n) # -1
         /\ SecondMotherOf(rec'[r].P, n) = (IF r = 1 THEN -1 ELSE op'.mom2)

\* C14: mother_last never influences genealogy logic: two records built by
\* the same appends that differ only in the mother_last values take the same
\* path on every append (cheap or full compaction) and end with the same
\* layout, first mothers and daughter ranges; mother_last only travels with
\* its entry's content.
C14_SecondMotherInert == [](TwinsAgree) /\ [][SecondMotherTravels]_vars

\* a full compaction has moved an entry of record 2 whose second mother is
\* entry 0 while its twin in record 1 has none
C14_Witness ==
  /\ op.name = "AddParticleBoth" /\ op.path = "compactify"
  /\ ncompact[2] >= 1
  /\ \E i \in DOMAIN rec[2].P :
       /\ rec[2].P[i].uid # i
       /\ rec[2].P[i].mom2 = 0 /\ rec[2].P[i].mom1 # 0
       /\ rec[1].P[i].mom2 = -1

\* the <priority> children of the well-formed documents of files, in the
\* order of the files and, within a file, of the document
RECURSIVE PrioritiesListed(_)
PrioritiesListed(files) ==
  IF files = <<>> THEN <<>>
  ELSE LET doc == Head(files)
           own == IF doc.parsed /\ doc.root = "messenger_config"
                  THEN SelectSeq(doc.nodes, LAMBDA nd : nd.name = "priority")
                  ELSE <<>>
       IN own \o PrioritiesListed(Tail(files))

\* C15: Messenger configuration is last-wins: the default file is applied
\* first, then each file of GMSGCONF in listed order, the priority entries of
\* a file in document order; the priority of a stream after Configure is
\* the one found last for it (and stays unset when none was found).
C15_ConfigureLastWins ==
  msg.configured =>
    LET listed == PrioritiesListed(<<msg.genie>> \o msg.gmsgconf)
    IN \A stream \in Streams :
         LET K == {k \in 1..Len(listed) :
                     TrimSpaces(listed[k].msgstream) = stream}
         IN IF K = {} THEN msg.levels[stream] = NOTSET
            ELSE msg.levels[stream] = PriorityFromString(listed[SetMax(K)].text)

\* the default file sets GHEP to WARN and then to DEBUG, the file of
\* GMSGCONF sets it to WARN again: WARN is in effect
C15_Witness ==
  /\ msg.configured
  /\ msg.genie = XmlDoc("messenger_config",
                        <<PriorityNode(" GHEP", "WARN"), PriorityNode("GHEP", "DEBUG")>>)
  /\ msg.gmsgconf = <<XmlDoc("messenger_config", <<PriorityNode(" GHEP", "WARN")>>)>>
  /\ msg.levels["GHEP"] = "WARN"
  /\ msg.levels["Ntp"] = NOTSET

\* the slot whose pre-swap occupant slot k holds after swapping a and b
CameFrom(k, a, b) == IF k = a THEN b ELSE IF k = b THEN a ELSE k

\* C16: swapping slots a and b (a # b, both in range) exchanges every field
\* of the two entries and re-points every entry whose mother_first
\* referenced the pre-swap occupant of a to b and every entry whose
\* mother_first referenced the pre-swap occupant of b to a, so that each
\* daughter's mother_first still resolves to the slot holding its mother.
C16_SwapContract ==
  (op.name = "SwapParticles" /\ op.arg # op.arg2) =>
    LET a == op.arg
        b == op.arg2
    IN /\ ~fault
       /\ DOMAIN Now = DOMAIN pre
       /\ \A k \in DOMAIN Now :
            LET was == pre[CameFrom(k, a, b)]
            IN /\ Now[k].uid = was.uid
               /\ Now[k].pdg = was.pdg /\ Now[k].ist = was.ist
               /\ Now[k].mom2 = was.mom2
               /\ Now[k].dau1 = was.dau1 /\ Now[k].dau2 = was.dau2
               /\ Now[k].p4 = was.p4 /\ Now[k].v4 = was.v4
               /\ Now[k].mom1 = CameFrom(was.mom1, a, b)
       /\ ParentConsistent(pre, Now)

\* the first position of P that fails the compactness check
FirstBroken(P) == SetMin({i \in DOMAIN P : ~HasCompactDaughterList(P, i)})

\* C17: Phase 1 of full compaction, for a position i that fails the
\* compactness check, scans every position k from the cursor (inclusive) to
\* the end, moves each entry with mother_first(k) = i into the cursor slot
\* and advances the cursor, so that count is the number of daughters of i at
\* or after the starting cursor; it then sets entry i's provisional range to
\* [cursor - count, cursor - 1], a window of exactly count slots, or to
\* (-1,-1) if count is 0.  Stated of the first pass of every compaction.
C17_PhaseOneMovesFromCursor ==
  Compactified =>
    LET i == FirstBroken(mid)
        n == GetEntries(mid)
        cursor == FirstNonInitStateEntry(mid)
        D == {k \in cursor..(n - 1) : mid[k].mom1 = i}
        M == MoveDaughters([P |-> mid, start |-> cursor, ndau |-> 0,
                            fault |-> FALSE, swaps |-> {}],
                           i, FirstScanPosition(cursor), n)
        S == SetProvisional(M, i, cursor)
    IN /\ M.ndau = Cardinality(D)
       /\ M.start = cursor + M.ndau
       /\ {M.P[k].uid : k \in cursor..(M.start - 1)} = {mid[k].uid : k \in D}
       /\ IF M.ndau = 0
          THEN S.P[i].dau1 = -1 /\ S.P[i].dau2 = -1
          ELSE /\ S.P[i].dau1 = M.start - M.ndau
               /\ S.P[i].dau2 = M.start - 1
               /\ S.P[i].dau2 - S.P[i].dau1 + 1 = M.ndau

\* (min, max) of the positions whose first mother is i, (-1,-1) if none
Hull(P, i) ==
  LET D == {k \in DOMAIN P : P[k].mom1 = i}
  IN IF D = {} THEN <<-1, -1>> ELSE <<SetMin(D), SetMax(D)>>

\* the array as Phase 1 leaves it, before Phase 2
AfterPhaseOne(P) ==
  CompactifyFrom([P |-> P, start |-> FirstNonInitStateEntry(P),
                  fault |-> FALSE, swaps |-> {}], 0, GetEntries(P)).P

\* C18: Phase 2 is authoritative: when full compaction returns, for every
\* position i, (daughter_first(i), daughter_last(i)) is (min, max) of the
\* positions k with mother_first(k) = i, and (-1,-1) when there is no such
\* k, whatever provisional ranges Phase 1 wrote.
C18_PhaseTwoAuthoritative ==
  Compactified =>
    \A i \in DOMAIN Now : <<Now[i].dau1, Now[i].dau2>> = Hull(Now, i)

\* Phase 1 left a provisional range that Phase 2 replaced
C18_Witness ==
  /\ Compactified
  /\ \E i \in DOMAIN Now :
       /\ Hull(Now, i) # <<-1, -1>>
       /\ <<AfterPhaseOne(mid)[i].dau1, AfterPhaseOne(mid)[i].dau2>> # Hull(Now, i)
       /\ <<Now[i].dau1, Now[i].dau2>> = Hull(Now, i)

Content(p) == <<p.pdg, p.ist, p.mom2, p.p4, p.v4>>
CountOf(P, c) == Cardinality({i \in DOMAIN P : Content(P[i]) = c})

\* C20: appends and compaction only add and reorder: after every
\* append_particle (cheap path or full compaction) count has grown by one
\* and the multiset of entry contents (type code, role, mother_last,
\* momentum, position) is the multiset before the call plus the appended
\* entry; every entry is there once, with the content it had.
C20_AppendKeepsMultiset ==
  Appended =>
    LET n == GetEntries(pre)
        added == Content(mid[n])
    IN /\ GetEntries(Now) = n + 1
       /\ DOMAIN Now = 0..n
       /\ \A c \in {Content(Now[i]) : i \in DOMAIN Now}
                   \cup {Content(pre[i]) : i \in DOMAIN pre} \cup {added} :
            CountOf(Now, c) = CountOf(pre, c) + (IF c = added THEN 1 ELSE 0)
       /\ \A u \in 0..n :
            /\ Cardinality({i \in DOMAIN Now : Now[i].uid = u}) = 1
            /\ Content(Now[PositionOf(Now, u)]) = Content(mid[PositionOf(mid, u)])

\* a full compaction has put an entry of another role where one was
C20_Witness ==
  /\ Compactified
  /\ GetEntries(Now) = GetEntries(pre) + 1
  /\ \E i \in DOMAIN pre :
       /\ Now[i].uid # pre[i].uid
       /\ Now[i].ist # pre[i].ist
       /\ Now[PositionOf(Now, pre[i].uid)].ist = pre[i].ist

\* C21: after every append_particle in a sequence of well-formed appends
\* (cheap path or full compaction) every entry's daughter range is the hull
\* of its children: (min, max) of the positions whose first mother it is,
\* and (-1,-1) exactly when it has none; so daughter_first <= daughter_last
\* and both lie in [0, count-1] whenever the range is non-empty.
C21_RangeIsHull ==
  Appended =>
    \A i \in DOMAIN Now :
      /\ <<Now[i].dau1, Now[i].dau2>> = Hull(Now, i)
      /\ (Now[i].dau1 = -1) = (\A k \in DOMAIN Now : Now[k].mom1 # i)
      /\ (Now[i].dau2 = -1) = (Now[i].dau1 = -1)
      /\ Now[i].dau1 # -1 =>
           /\ Now[i].dau1 <= Now[i].dau2
           /\ Now[i].dau1 \in DOMAIN Now /\ Now[i].dau2 \in DOMAIN Now

\* a cheap append after a full compaction; some range is the hull of its
\* children and yet holds an entry that is not one of them
C21_Witness ==
  /\ Appended /\ op.calls = 0 /\ ncompact[op.r] >= 1
  /\ \E i \in DOMAIN Now :
       /\ Now[i].dau1 # -1 /\ Now[i].dau2 > Now[i].dau1
       /\ <<Now[i].dau1, Now[i].dau2>> = Hull(Now, i)
       /\ \E k \in Now[i].dau1..Now[i].dau2 : Now[k].mom1 # i

\* the positions before the first entry that is neither initial-state nor
\* target-nucleon
LeadingBlock(P) ==
  {i \in DOMAIN P :
     \A j \in 0..i : P[j].ist \in {kIStInitialState, kIstNucleonTarget}}

\* C22: full compaction never relocates the leading initial-state block:
\* every position before the first entry whose role is neither
\* initial-state nor target-nucleon holds the same type code, role,
\* momentum and position after full compaction as before it.
C22_LeadingBlockStays ==
  Compactified =>
    \A i \in LeadingBlock(mid) :
      /\ i \in DOMAIN Now
      /\ Now[i].uid = mid[i].uid
      /\ Now[i].pdg = mid[i].pdg /\ Now[i].ist = mid[i].ist
      /\ Now[i].p4 = mid[i].p4 /\ Now[i].v4 = mid[i].v4

\* the compaction moved an entry behind a leading block of both roles
C22_Witness ==
  /\ Compactified
  /\ {0, 1} \subseteq LeadingBlock(mid)
  /\ mid[0].ist # mid[1].ist
  /\ Now[0].uid = 0 /\ Now[1].uid = 1
  /\ \E k \in DOMAIN Now : Now[k].uid # mid[k].uid

\* C23: copy_from tolerates a source without summary: dst.copy_from(src),
\* src having no attached summary, completes without failure and leaves dst
\* with src's entries and flags and with no attached summary.
C23_CopyWithoutSummary ==
  (op.name = "Copy" /\ rec[op.src].fInteraction = 0) =>
    LET D == rec[op.r]
        S == rec[op.src]
    IN /\ ~fault
       /\ GetEntries(D.P) = GetEntries(S.P)
       /\ \A i \in DOMAIN S.P : i \in DOMAIN D.P /\ SameEntry(D.P[i], S.P[i])
       /\ SameFlags(D, S)
       /\ D.fInteraction = 0

\* C24: the fatal swap precondition is never violated from inside the
\* record: in any sequence of well-formed appends every swap issued by full
\* compaction has 0 <= cursor < k < count, and every daughter index
\* dereferenced while re-pointing mothers inside the swap is an existing
\* position (neither the assert fires nor a null entry is dereferenced).
C24_SwapPreconditionKept ==
  /\ ~fault
  /\ Appended =>
       \A sw \in op.swaps :
         0 <= sw[1] /\ sw[1] < sw[2] /\ sw[2] < GetEntries(Now)

\* a compaction issued two swaps, one of them of an entry that had
\* daughters to re-point
C24_Witness ==
  /\ Compactified /\ ~fault
  /\ Cardinality(op.swaps) >= 2
  /\ \E sw \in op.swaps : sw[2] = GetEntries(Now) - 1
  /\ \E i \in DOMAIN mid : mid[i].dau1 # -1 /\ Now[i].uid # mid[i].uid

=============================================================================
